---- MODULE Spec2Model ----
(***************************************************************************)
(* The task registry of shared/state.py: one process-wide dictionary       *)
(* `state` and one threading.Lock `state_lock`.  Every public function is  *)
(* wrapped by the decorator thread_safe, whose wrapper takes state_lock    *)
(* (a plain, non-reentrant Lock), runs the function and releases the lock. *)
(* Worker threads call the functions concurrently.  A thread is modelled   *)
(* by its call stack: one frame per wrapper activation.                    *)
(***************************************************************************)
EXTENDS Integers, Sequences, FiniteSets, TLC

\* ------------------------------------------------------------ bounds ----
MaxCalls == 3        \* top-level calls issued by the workers, all together

Names == {"A", "B"}  \* node names in use
Threads == {1, 2}    \* worker threads

\* Python's None (output, feedback, a missing argument, a missing result).
None == "None"
NotStarted == "Not Started"
Completed == "Completed"

\* Values the callers pass.
Outputs == {"out"}
Feedbacks == {"fb"}
StatusArgs == {Completed, "Running"}
TotalArgs == {0, 4}
PriorityArgs == {0, 1}
ProgressArgs == {50}
\* The dependencies argument of register_node: omitted (None) or a list.
DepsArgs == {[is_none |-> TRUE, list |-> <<>>]}
            \cup {[is_none |-> FALSE, list |-> l] : l \in {<<>>} \cup {<<d>> : d \in Names}}

VARIABLES
    progress,         \* state["progress"]
    total_tasks,      \* state["total_tasks"]
    completed_tasks,  \* state["completed_tasks"]
    nodes,            \* state["nodes"]: a function from the names present
    state_lock,       \* state_lock.locked()
    stack,            \* stack[t]: the wrapper activations of thread t
    calls             \* top-level calls issued so far

vars == <<progress, total_tasks, completed_tasks, nodes, state_lock, stack, calls>>
registry == <<progress, total_tasks, completed_tasks, nodes>>

\* ------------------------------------------------------------ frames ----
\* pc: "acquire"  at `with state_lock`, the lock not yet taken
\*     "body"     lock taken, at the first statement of the function
\*     "resume"   a nested call has returned
\*     "release"  the function has returned rv, the lock not yet released
\*     "raised"   the call raised before any wrapper ran
Frame(op, node_name, arg, priority) ==
    [op |-> op, pc |-> "acquire", node_name |-> node_name, arg |-> arg,
     priority |-> priority, rv |-> None, got |-> None]

Top(t) == stack[t][Len(stack[t])]
Idle(t) == stack[t] = <<>>

\* The function returns rv: the frame waits to leave the with block.
Return(t, rv) ==
    stack' = [stack EXCEPT ![t][Len(stack[t])] =
                 [@ EXCEPT !.pc = "release", !.rv = rv]]

\* The function calls another wrapped function: a new activation of wrapper.
CallNested(t, op, node_name) ==
    stack' = [stack EXCEPT ![t] =
                 Append([@ EXCEPT ![Len(@)].pc = "resume"],
                        Frame(op, node_name, None, None))]

\* ------------------------------------------------------- pure helpers ----
NewNode(dependencies, priority) ==
    [status |-> NotStarted, dependencies |-> dependencies, retries |-> 0,
     output |-> None, priority |-> priority, feedback |-> None]

\* nodes with node_name bound to node.
Put(node_name, node) ==
    [n \in DOMAIN nodes \cup {node_name} |->
        IF n = node_name THEN node ELSE nodes[n]]

\* int((completed_tasks / total_tasks) * 100), evaluated only when total_tasks > 0,
\* with completed_tasks >= 0, where int() is the floor.  The float product first
\* differs from the exact quotient at 23 / 5; below that this quotient is exact.
Percent(completed, total) == (100 * completed) \div total

\* The loop of are_dependencies_completed over the list it was handed.
RECURSIVE AllCompleted(_)
AllCompleted(dependencies) ==
    IF dependencies = <<>> THEN TRUE
    ELSE LET dependency == Head(dependencies)
             status == IF dependency \in DOMAIN nodes
                       THEN nodes[dependency].status ELSE None
         IN  IF status # Completed THEN FALSE
             ELSE AllCompleted(Tail(dependencies))

\* ------------------------------------------------- the wrapped functions ----
\* Each operator is one function of state.py run by thread t, whose top frame
\* f holds its arguments; "body" runs to the first nested call or to the
\* return, "resume" from a nested call's return to the next.

\* `dependencies or []`: None and the empty list both give a new empty list.
OrEmpty(dependencies) ==
    IF dependencies.is_none \/ dependencies.list = <<>> THEN <<>> ELSE dependencies.list

\* register_node without its `not in` test: a repeated call replaces the node.
register_node_overwrite(t) ==
    LET f == Top(t) IN
    /\ nodes' = Put(f.node_name, NewNode(OrEmpty(f.arg), f.priority))
    /\ Return(t, None)
    /\ UNCHANGED <<progress, total_tasks, completed_tasks>>

register_node(t) ==
    LET f == Top(t) IN
    /\ nodes' = IF f.node_name \notin DOMAIN nodes
                THEN Put(f.node_name,
                         NewNode(OrEmpty(f.arg), f.priority))
                ELSE nodes
    /\ Return(t, None)
    /\ UNCHANGED <<progress, total_tasks, completed_tasks>>

get_priority(t) ==
    LET f == Top(t) IN
    /\ Return(t, IF f.node_name \in DOMAIN nodes
                 THEN nodes[f.node_name].priority ELSE None)
    /\ UNCHANGED registry

\* add_dependency that puts the dependency first.
AppendDependencyInFront(node_name, dependency) ==
    [nodes EXCEPT ![node_name].dependencies = <<dependency>> \o @]

\* add_dependency that assigns [dependency] instead of appending it.
AppendDependencyReplacing(node_name, dependency) ==
    [nodes EXCEPT ![node_name].dependencies = <<dependency>>]

AppendDependency(node_name, dependency) ==
    [nodes EXCEPT ![node_name].dependencies = @ \o <<dependency>>]

add_dependency(t) ==
    LET f == Top(t) IN
    IF f.pc = "body" /\ f.node_name \notin DOMAIN nodes
    THEN /\ CallNested(t, "initialize_node", f.node_name)
         /\ UNCHANGED registry
    ELSE /\ nodes' = AppendDependency(f.node_name, f.arg)
         /\ Return(t, None)
         /\ UNCHANGED <<progress, total_tasks, completed_tasks>>

get_dependencies(t) ==
    LET f == Top(t) IN
    /\ Return(t, IF f.node_name \in DOMAIN nodes
                 THEN nodes[f.node_name].dependencies ELSE <<>>)
    /\ UNCHANGED registry

are_dependencies_completed(t) ==
    LET f == Top(t) IN
    IF f.pc = "body"
    THEN /\ CallNested(t, "get_dependencies", f.node_name)
         /\ UNCHANGED registry
    ELSE /\ Return(t, AllCompleted(f.got))
         /\ UNCHANGED registry

increment_retry_count(t) ==
    LET f == Top(t) IN
    /\ nodes' = IF f.node_name \in DOMAIN nodes
                THEN [nodes EXCEPT ![f.node_name].retries = @ + 1]
                ELSE nodes
    /\ Return(t, None)
    /\ UNCHANGED <<progress, total_tasks, completed_tasks>>

get_retry_count(t) ==
    LET f == Top(t) IN
    /\ Return(t, IF f.node_name \in DOMAIN nodes
                 THEN nodes[f.node_name].retries ELSE 0)
    /\ UNCHANGED registry

add_feedback(t) ==
    LET f == Top(t) IN
    /\ nodes' = IF f.node_name \in DOMAIN nodes
                THEN [nodes EXCEPT ![f.node_name].feedback = f.arg]
                ELSE nodes
    /\ Return(t, None)
    /\ UNCHANGED <<progress, total_tasks, completed_tasks>>

get_feedback(t) ==
    LET f == Top(t) IN
    /\ Return(t, IF f.node_name \in DOMAIN nodes
                 THEN nodes[f.node_name].feedback ELSE None)
    /\ UNCHANGED registry

\* initialize_node with `total_tasks += 1` outside the if.
initialize_node_always_counts(t) ==
    LET f == Top(t) IN
    /\ nodes' = IF f.node_name \notin DOMAIN nodes
                THEN Put(f.node_name, NewNode(<<>>, 0))
                ELSE nodes
    /\ total_tasks' = total_tasks + 1
    /\ Return(t, None)
    /\ UNCHANGED <<progress, completed_tasks>>

initialize_node(t) ==
    LET f == Top(t) IN
    /\ IF f.node_name \notin DOMAIN nodes
       THEN /\ nodes' = Put(f.node_name, NewNode(<<>>, 0))
            /\ total_tasks' = total_tasks + 1
       ELSE UNCHANGED <<nodes, total_tasks>>
    /\ Return(t, None)
    /\ UNCHANGED <<progress, completed_tasks>>

update_node_output(t) ==
    LET f == Top(t) IN
    IF f.pc = "body" /\ f.node_name \in DOMAIN nodes
    THEN /\ nodes' = [nodes EXCEPT ![f.node_name].output = f.arg,
                                   ![f.node_name].status = Completed]
         /\ CallNested(t, "increment_completed_tasks", None)
         /\ UNCHANGED <<progress, total_tasks, completed_tasks>>
    ELSE /\ Return(t, None)
         /\ UNCHANGED registry

\* update_progress that counts the task in hand as completed already.
update_progress_counting_ahead(t) ==
    /\ progress' = IF total_tasks > 0
                   THEN Percent(completed_tasks + 1, total_tasks)
                   ELSE progress
    /\ Return(t, None)
    /\ UNCHANGED <<total_tasks, completed_tasks, nodes>>

update_progress(t) ==
    /\ progress' = IF total_tasks > 0
                   THEN Percent(completed_tasks, total_tasks)
                   ELSE progress
    /\ Return(t, None)
    /\ UNCHANGED <<total_tasks, completed_tasks, nodes>>

\* increment_completed_tasks that counts the task twice.
increment_completed_tasks_twice(t) ==
    LET f == Top(t) IN
    IF f.pc = "body"
    THEN /\ completed_tasks' = completed_tasks + 2
         /\ CallNested(t, "update_progress", None)
         /\ UNCHANGED <<progress, total_tasks, nodes>>
    ELSE /\ Return(t, None)
         /\ UNCHANGED registry

increment_completed_tasks(t) ==
    LET f == Top(t) IN
    IF f.pc = "body"
    THEN /\ completed_tasks' = completed_tasks + 1
         /\ CallNested(t, "update_progress", None)
         /\ UNCHANGED <<progress, total_tasks, nodes>>
    ELSE /\ Return(t, None)
         /\ UNCHANGED registry

set_total_tasks(t) ==
    LET f == Top(t) IN
    /\ total_tasks' = f.arg
    /\ Return(t, None)
    /\ UNCHANGED <<progress, completed_tasks, nodes>>

\* update_node_status that stores the status of a node it does not know.
update_node_status_creating(t) ==
    LET f == Top(t) IN
    /\ nodes' = IF f.node_name \in DOMAIN nodes
                THEN [nodes EXCEPT ![f.node_name].status = f.arg]
                ELSE Put(f.node_name, [NewNode(<<>>, 0) EXCEPT !.status = f.arg])
    /\ Return(t, None)
    /\ UNCHANGED <<progress, total_tasks, completed_tasks>>

\* update_node_status that counts a node set to "Completed" as a completed task.
update_node_status_counting(t) ==
    LET f == Top(t) IN
    /\ nodes' = IF f.node_name \in DOMAIN nodes
                THEN [nodes EXCEPT ![f.node_name].status = f.arg]
                ELSE nodes
    /\ completed_tasks' = IF f.node_name \in DOMAIN nodes /\ f.arg = Completed
                          THEN completed_tasks + 1 ELSE completed_tasks
    /\ Return(t, None)
    /\ UNCHANGED <<progress, total_tasks>>

update_node_status(t) ==
    LET f == Top(t) IN
    /\ nodes' = IF f.node_name \in DOMAIN nodes
                THEN [nodes EXCEPT ![f.node_name].status = f.arg]
                ELSE nodes
    /\ Return(t, None)
    /\ UNCHANGED <<progress, total_tasks, completed_tasks>>

\* get_node_status without the "Not Started" default of its second get.
get_node_status_no_default(t) ==
    LET f == Top(t) IN
    /\ Return(t, IF f.node_name \in DOMAIN nodes
                 THEN nodes[f.node_name].status ELSE None)
    /\ UNCHANGED registry

get_node_status(t) ==
    LET f == Top(t) IN
    /\ Return(t, IF f.node_name \in DOMAIN nodes
                 THEN nodes[f.node_name].status ELSE NotStarted)
    /\ UNCHANGED registry

\* Prints the progress and every node; changes nothing.
progress_estimation_node(t) ==
    /\ Return(t, None)
    /\ UNCHANGED registry

get_progress(t) ==
    /\ Return(t, progress)
    /\ UNCHANGED registry

\* ------------------------------------------------------------ actions ----
\* A worker calls a function of the module with some arguments: wrapper(*args)
\* starts.
NodeOps ==
    {"get_priority", "get_dependencies", "are_dependencies_completed",
     "increment_retry_count", "get_retry_count", "get_feedback",
     "initialize_node", "get_node_status"}
PlainOps ==
    {"update_progress", "increment_completed_tasks", "progress_estimation_node",
     "get_progress"}

\* A call of a name the module does not define, set_progress(value): the
\* attribute lookup raises AttributeError, no wrapper runs.
Missing(op, arg) == [Frame(op, None, arg, None) EXCEPT !.pc = "raised"]

Push(t, f) == stack' = [stack EXCEPT ![t] = <<f>>]

Call(t) ==
    /\ Idle(t)
    /\ calls < MaxCalls
    /\ \/ \E n \in Names, d \in DepsArgs, p \in PriorityArgs :
             Push(t, Frame("register_node", n, d, p))
       \/ \E op \in NodeOps, n \in Names : Push(t, Frame(op, n, None, None))
       \/ \E n \in Names, d \in Names : Push(t, Frame("add_dependency", n, d, None))
       \/ \E n \in Names, fb \in Feedbacks : Push(t, Frame("add_feedback", n, fb, None))
       \/ \E n \in Names, o \in Outputs : Push(t, Frame("update_node_output", n, o, None))
       \/ \E n \in Names, s \in StatusArgs : Push(t, Frame("update_node_status", n, s, None))
       \/ \E total \in TotalArgs : Push(t, Frame("set_total_tasks", None, total, None))
       \/ \E op \in PlainOps : Push(t, Frame(op, None, None, None))
       \/ \E v \in ProgressArgs : Push(t, Missing("set_progress", v))
    /\ calls' = calls + 1
    /\ UNCHANGED <<registry, state_lock>>

\* A wrapper that runs the function without waiting for the lock.
LockIgnored == TRUE

\* threading.Lock.acquire(): blocks while the lock is taken, whoever took it.
LockFree == ~state_lock

\* `with state_lock:` entered.
Acquire(t) ==
    /\ ~Idle(t)
    /\ Top(t).pc = "acquire"
    /\ LockFree
    /\ state_lock' = TRUE
    /\ stack' = [stack EXCEPT ![t][Len(stack[t])].pc = "body"]
    /\ UNCHANGED <<registry, calls>>

\* func(*args, **kwargs) runs, up to its next nested call or its return.
Step(t) ==
    /\ ~Idle(t)
    /\ Top(t).pc \in {"body", "resume"}
    /\ CASE Top(t).op = "register_node" -> register_node(t)
         [] Top(t).op = "get_priority" -> get_priority(t)
         [] Top(t).op = "add_dependency" -> add_dependency(t)
         [] Top(t).op = "get_dependencies" -> get_dependencies(t)
         [] Top(t).op = "are_dependencies_completed" -> are_dependencies_completed(t)
         [] Top(t).op = "increment_retry_count" -> increment_retry_count(t)
         [] Top(t).op = "get_retry_count" -> get_retry_count(t)
         [] Top(t).op = "add_feedback" -> add_feedback(t)
         [] Top(t).op = "get_feedback" -> get_feedback(t)
         [] Top(t).op = "initialize_node" -> initialize_node(t)
         [] Top(t).op = "update_node_output" -> update_node_output(t)
         [] Top(t).op = "update_progress" -> update_progress(t)
         [] Top(t).op = "increment_completed_tasks" -> increment_completed_tasks(t)
         [] Top(t).op = "set_total_tasks" -> set_total_tasks(t)
         [] Top(t).op = "update_node_status" -> update_node_status(t)
         [] Top(t).op = "get_node_status" -> get_node_status(t)
         [] Top(t).op = "progress_estimation_node" -> progress_estimation_node(t)
         [] Top(t).op = "get_progress" -> get_progress(t)
    /\ UNCHANGED <<state_lock, calls>>

\* The with block is left: the lock is released and the value handed to the
\* caller, a worker or the function that made the nested call.
Release(t) ==
    /\ ~Idle(t)
    /\ Top(t).pc = "release"
    /\ state_lock' = FALSE
    /\ stack' = [stack EXCEPT ![t] =
                    IF Len(@) = 1 THEN <<>>
                    ELSE [SubSeq(@, 1, Len(@) - 1) EXCEPT ![Len(@) - 1].got = Top(t).rv]]
    /\ UNCHANGED <<registry, calls>>

\* The exception of a call that raised reaches the worker; nothing was taken,
\* nothing is released.
Raise(t) ==
    /\ ~Idle(t)
    /\ Top(t).pc = "raised"
    /\ stack' = [stack EXCEPT ![t] = <<>>]
    /\ UNCHANGED <<registry, state_lock, calls>>

Init ==
    /\ progress = 0
    /\ total_tasks = 1
    /\ completed_tasks = 0
    /\ nodes = <<>>
    /\ state_lock = FALSE
    /\ stack = [t \in Threads |-> <<>>]
    /\ calls = 0

Run(t) == Acquire(t) \/ Step(t) \/ Release(t) \/ Raise(t)

Next == \E t \in Threads : Call(t) \/ Run(t)

Spec == Init /\ [][Next]_vars

\* A thread inside a call keeps being scheduled; a worker need not call again.
FairSpec == Spec /\ \A t \in Threads : WF_vars(Run(t))

\* ------------------------------------------------------ state predicates ----
\* Thread t is inside a with block of the wrapper: it took the lock and has
\* not released it.
Holding(t) == \E i \in 1..Len(stack[t]) : stack[t][i].pc \notin {"acquire", "raised"}

\* Thread t has called op and waits for the lock, nothing of the call done yet.
Waiting(t, op) == Len(stack[t]) = 1 /\ stack[t][1].op = op /\ stack[t][1].pc = "acquire"

\* Thread t has the lock and is about to run the body of its top-level call of op.
AtBody(t, op) == Len(stack[t]) = 1 /\ stack[t][1].op = op /\ stack[t][1].pc = "body"

\* The top-level call of op by thread t has computed its result and is about to
\* leave the wrapper.
AtRelease(t, op) == Len(stack[t]) = 1 /\ stack[t][1].op = op /\ stack[t][1].pc = "release"

\* Thread t waits for the lock inside its own with block: nobody can release it.
SelfBlocked(t) == ~Idle(t) /\ Top(t).pc = "acquire" /\ Len(stack[t]) > 1 /\ state_lock

\* ------------------------------------------------------------- claims ----

\* C1: two threads that each call increment_completed_tasks() once, concurrently
\* and from completed_tasks = 0, both return, and completed_tasks is then 2.
C1_NoLostIncrement ==
    \A t \in Threads : \A u \in Threads \ {t} :
        (/\ Waiting(t, "increment_completed_tasks")
         /\ Waiting(u, "increment_completed_tasks")
         /\ completed_tasks = 0)
        ~> (Idle(t) /\ Idle(u) /\ completed_tasks = 2)

\* C2: every call a thread starts eventually returns to the worker, with the
\* lock free once no call is in progress.
C2_EveryCallReturns ==
    /\ \A t \in Threads : (~Idle(t)) ~> Idle(t)
    /\ [](state_lock => <>(~state_lock))

\* C3: at most one thread is inside a with block at any time, the lock is taken
\* exactly while one is, and so while a thread is between two steps of a
\* function no other thread is inside a function.
C3_MutualExclusion ==
    /\ \A t \in Threads : \A u \in Threads \ {t} : ~(Holding(t) /\ Holding(u))
    /\ state_lock = (\E t \in Threads : Holding(t))

\* C3's case: a node already "Completed" by update_node_output, completed_tasks
\* not yet incremented, and another thread waiting to read.
C3_Witness ==
    \E t \in Threads : \E u \in Threads \ {t} :
        /\ Len(stack[t]) > 1
        /\ stack[t][1].op = "update_node_output"
        /\ nodes[stack[t][1].node_name].status = Completed
        /\ completed_tasks = 0
        /\ Waiting(u, "get_node_status")

\* The values of total_tasks and completed_tasks before a call that the claims
\* about the call are stated for.
Totals == 1..2
Counts == 0..1

\* Thread t takes the step that runs the body of its top-level call of op to
\* the return.
Runs(t, op) == AtBody(t, op) /\ AtRelease(t, op)'

\* C4: add_dependency(n, d) with n not in nodes returns with n present as a new
\* node (status "Not Started", retries 0, output None, priority 0) whose
\* dependencies are [d], and with total_tasks one larger.
C4_AddDependencyCreates ==
    \A t \in Threads, k \in Totals :
        (/\ AtBody(t, "add_dependency")
         /\ stack[t][1].node_name \notin DOMAIN nodes
         /\ total_tasks = k)
        ~> (/\ AtRelease(t, "add_dependency")
            /\ LET n == stack[t][1].node_name
                   d == stack[t][1].arg
               IN  /\ n \in DOMAIN nodes
                   /\ nodes[n] = [NewNode(<<>>, 0) EXCEPT !.dependencies = <<d>>]
            /\ total_tasks = k + 1)

\* C5: two threads that concurrently call add_dependency(n, d1) and
\* add_dependency(n, d2) for an absent n both return; n is then present,
\* total_tasks is one larger and the dependencies of n hold both d1 and d2.
C5_ConcurrentAddDependency ==
    \A t \in Threads : \A u \in {v \in Threads : v > t} :
    \A n \in Names, d1 \in Names, d2 \in Names, k \in Totals :
        (/\ Waiting(t, "add_dependency") /\ Waiting(u, "add_dependency")
         /\ stack[t][1].node_name = n /\ stack[t][1].arg = d1
         /\ stack[u][1].node_name = n /\ stack[u][1].arg = d2
         /\ n \notin DOMAIN nodes
         /\ total_tasks = k)
        ~> (/\ Idle(t) /\ Idle(u)
            /\ n \in DOMAIN nodes
            /\ nodes[n].dependencies \in {<<d1, d2>>, <<d2, d1>>}
            /\ total_tasks = k + 1)

\* Every dependency of node_name is a node that is present with status
\* "Completed" (no dependencies when node_name is absent).
Ready(node_name) ==
    LET dependencies == IF node_name \in DOMAIN nodes
                        THEN nodes[node_name].dependencies ELSE <<>>
    IN  \A i \in 1..Len(dependencies) :
            /\ dependencies[i] \in DOMAIN nodes
            /\ nodes[dependencies[i]].status = Completed

\* C6: are_dependencies_completed(n) returns, and returns TRUE exactly when
\* every dependency of n is present with status "Completed".
C6_AreDependenciesCompleted ==
    \A t \in Threads :
        AtBody(t, "are_dependencies_completed")
        ~> (/\ AtRelease(t, "are_dependencies_completed")
            /\ stack[t][1].rv = Ready(stack[t][1].node_name))

\* C7: update_node_output(n, v) on a node that exists returns with its status
\* "Completed", its output v, completed_tasks one larger and, when
\* total_tasks > 0, progress the floor of 100 * completed_tasks / total_tasks.
C7_UpdateNodeOutput ==
    \A t \in Threads, c \in Counts :
        (/\ AtBody(t, "update_node_output")
         /\ stack[t][1].node_name \in DOMAIN nodes
         /\ completed_tasks = c)
        ~> (/\ AtRelease(t, "update_node_output")
            /\ LET n == stack[t][1].node_name
                   v == stack[t][1].arg
               IN  /\ n \in DOMAIN nodes
                   /\ nodes[n].status = Completed
                   /\ nodes[n].output = v
            /\ completed_tasks = c + 1
            /\ (total_tasks > 0 =>
                   progress = (100 * completed_tasks) \div total_tasks))

\* C8: the body of update_node_status(n, s) changes the status of node n to s
\* and nothing else: not the counters, not progress, no other field of n, no
\* other node, and it creates no node.
C8_StatusOnly ==
    [][\A t \in Threads :
          Runs(t, "update_node_status") =>
             LET n == stack[t][1].node_name
                 s == stack[t][1].arg
             IN  /\ <<progress, total_tasks, completed_tasks>>'
                      = <<progress, total_tasks, completed_tasks>>
                 /\ DOMAIN nodes' = DOMAIN nodes
                 /\ \A m \in DOMAIN nodes :
                       nodes'[m] = IF m = n THEN [nodes[m] EXCEPT !.status = s]
                                   ELSE nodes[m]]_vars

\* C8's case: update_node_status(n, "Completed") has run on a node that exists
\* and completed_tasks is still 0.
C8_Witness ==
    \E t \in Threads :
        /\ AtRelease(t, "update_node_status")
        /\ stack[t][1].arg = Completed
        /\ stack[t][1].node_name \in DOMAIN nodes
        /\ nodes[stack[t][1].node_name].status = Completed
        /\ completed_tasks = 0

\* C9: the body of register_node(n, ...) or initialize_node(n) leaves nodes with
\* the keys it had and n; when n was present it changes nothing at all; when
\* n was absent it adds n as a new node and changes no other node; and
\* register_node never changes total_tasks.
C9_FirstRegistrationWins ==
    [][\A t \in Threads :
          /\ Runs(t, "register_node") =>
                LET n == stack[t][1].node_name IN
                /\ DOMAIN nodes' = DOMAIN nodes \cup {n}
                /\ \A m \in DOMAIN nodes : nodes'[m] = nodes[m]
                /\ n \notin DOMAIN nodes =>
                      nodes'[n] = NewNode(stack[t][1].arg.list, stack[t][1].priority)
                /\ <<progress, total_tasks, completed_tasks>>'
                      = <<progress, total_tasks, completed_tasks>>
          /\ Runs(t, "initialize_node") =>
                LET n == stack[t][1].node_name IN
                /\ DOMAIN nodes' = DOMAIN nodes \cup {n}
                /\ \A m \in DOMAIN nodes : nodes'[m] = nodes[m]
                /\ n \notin DOMAIN nodes => nodes'[n] = NewNode(<<>>, 0)
                /\ n \in DOMAIN nodes => total_tasks' = total_tasks
                /\ <<progress, completed_tasks>>' = <<progress, completed_tasks>>]_vars

\* C9's case: register_node(n, priority = 1) has run on a node registered with
\* priority 0, which keeps it.
C9_Witness ==
    \E t \in Threads :
        /\ AtRelease(t, "register_node")
        /\ stack[t][1].priority = 1
        /\ stack[t][1].node_name \in DOMAIN nodes
        /\ nodes[stack[t][1].node_name].priority = 0

\* C10: the body of initialize_node(n) adds 1 to total_tasks when n is absent
\* and 0 when it is present; and every step but the body of set_total_tasks
\* adds to total_tasks the number of nodes it creates, register_node's body
\* excepted, which creates nodes and leaves total_tasks alone.
C10_TotalCountsInitialized ==
    [][\A t \in Threads :
          /\ Runs(t, "initialize_node") =>
                total_tasks' = total_tasks
                    + (IF stack[t][1].node_name \in DOMAIN nodes THEN 0 ELSE 1)
          /\ Runs(t, "register_node") => total_tasks' = total_tasks
          /\ (stack'[t] # stack[t] /\ ~Runs(t, "register_node")
                 /\ ~Runs(t, "set_total_tasks")) =>
                total_tasks' - total_tasks
                    = Cardinality(DOMAIN nodes') - Cardinality(DOMAIN nodes)]_vars

\* C10's case: initialize_node(n) has run on a node that register_node created,
\* after initialize_node created another, and total_tasks is 2.
C10_Witness ==
    \E t \in Threads :
        /\ AtRelease(t, "initialize_node")
        /\ stack[t][1].node_name \in DOMAIN nodes
        /\ nodes[stack[t][1].node_name].priority = 1
        /\ DOMAIN nodes = Names
        /\ total_tasks = 2


\* C11: in every reachable state progress is an integer from 0 to 100.
C11_ProgressInRange == progress \in 0..100

\* C11's case: update_progress() has recomputed progress after set_total_tasks
\* changed total_tasks.
C11_Witness ==
    \E t \in Threads :
        /\ AtRelease(t, "update_progress")
        /\ total_tasks = 4
        /\ progress = 0

\* Thread t runs the body of increment_completed_tasks, called by a worker or
\* by update_node_output.
Increments(t) ==
    /\ ~Idle(t)
    /\ Top(t).op = "increment_completed_tasks"
    /\ Top(t).pc = "body"
    /\ stack'[t] # stack[t]

\* C12: no step makes completed_tasks smaller, and a step that changes it is
\* the body of increment_completed_tasks adding exactly 1.
C12_CompletedMonotonic ==
    [][/\ completed_tasks' >= completed_tasks
       /\ completed_tasks' # completed_tasks =>
             /\ completed_tasks' = completed_tasks + 1
             /\ \E t \in Threads : Increments(t)]_vars

\* C12's case: increment_completed_tasks() has added 1 to completed_tasks.
C12_Witness ==
    \E t \in Threads :
        /\ Len(stack[t]) = 2
        /\ stack[t][1].op = "increment_completed_tasks"
        /\ stack[t][1].pc = "resume"
        /\ completed_tasks = 1


\* C13: the body of increment_retry_count, add_feedback, update_node_output or
\* update_node_status, run with a name that is not in nodes, goes straight to
\* the return and changes nothing of the registry.
C13_AbsentNodeUntouched ==
    [][\A t \in Threads :
       \A op \in {"increment_retry_count", "add_feedback", "update_node_output",
                  "update_node_status"} :
          (/\ AtBody(t, op)
           /\ stack[t][1].node_name \notin DOMAIN nodes
           /\ stack'[t] # stack[t])
          => (AtRelease(t, op)' /\ registry' = registry)]_vars

\* C13's case: update_node_output has run for a name that is not in nodes.
C13_Witness ==
    \E t \in Threads :
        /\ AtRelease(t, "update_node_output")
        /\ stack[t][1].node_name \notin DOMAIN nodes
        /\ DOMAIN nodes # {}

\* What a read of op returns for a node that is absent.
AbsentDefault(op, rv) ==
    CASE op = "get_dependencies" -> rv = <<>>
      [] op = "get_retry_count" -> rv = 0
      [] op = "get_node_status" -> rv = NotStarted
      [] OTHER -> rv = None

\* C14: the body of get_dependencies, get_retry_count, get_feedback,
\* get_priority or get_node_status, run with a name that is not in nodes,
\* changes nothing and returns [], 0, None, None and "Not Started"; and
\* get_node_status returns the same "Not Started" for a node never started.
C14_ReadDefaults ==
    [][\A t \in Threads :
       \A op \in {"get_dependencies", "get_retry_count", "get_feedback",
                  "get_priority", "get_node_status"} :
          Runs(t, op) =>
             LET n == stack[t][1].node_name IN
             /\ registry' = registry
             /\ n \notin DOMAIN nodes => AbsentDefault(op, stack'[t][1].rv)
             /\ (op = "get_node_status" /\ n \in DOMAIN nodes
                    /\ nodes[n].status = NotStarted) =>
                   stack'[t][1].rv = NotStarted]_vars

\* C14's case: get_node_status has run for a name that is not in nodes while
\* another node is present.
C14_Witness ==
    \E t \in Threads :
        /\ AtRelease(t, "get_node_status")
        /\ stack[t][1].node_name \notin DOMAIN nodes
        /\ stack[t][1].rv = NotStarted
        /\ DOMAIN nodes # {}


\* C15: a call set_progress(value) ends with progress = value, which
\* get_progress() then returns.
C15_SetProgressOverrides ==
    \A t \in Threads :
        /\ (~Idle(t) /\ stack[t][1].op = "set_progress"
               /\ stack[t][1].pc \in {"release", "raised"})
              => progress = stack[t][1].arg
        /\ AtRelease(t, "get_progress") => stack[t][1].rv = progress


\* The names node_name depends on, directly.
DependsOn(node_name) ==
    IF node_name \in DOMAIN nodes
    THEN {nodes[node_name].dependencies[i] :
             i \in 1..Len(nodes[node_name].dependencies)}
    ELSE {}

\* The names reached from the set S along at most k more dependencies.
RECURSIVE Reached(_, _)
Reached(S, k) ==
    IF k = 0 THEN S
    ELSE Reached(S \cup UNION {DependsOn(m) : m \in S}, k - 1)

\* node_name is on a dependency cycle through another node.
OnCycle(node_name) ==
    \E m \in Reached(DependsOn(node_name), Cardinality(Names)) :
        /\ m # node_name
        /\ node_name \in Reached(DependsOn(m), Cardinality(Names))

\* The nodes of the cycles of node_name.
CycleOf(node_name) ==
    {m \in Reached(DependsOn(node_name), Cardinality(Names)) :
        node_name \in Reached(DependsOn(m), Cardinality(Names))}

C17_IncrementWithoutTotal ==
    \A t \in Threads, c \in Counts :
        (/\ AtBody(t, "increment_completed_tasks")
         /\ total_tasks <= 0
         /\ completed_tasks = c
         /\ progress = 0)
        ~> (/\ AtRelease(t, "increment_completed_tasks")
            /\ completed_tasks = c + 1
            /\ progress = 0)

\* Thread t runs the body of update_progress, called by a worker or by
\* increment_completed_tasks.
Recomputes(t) ==
    /\ ~Idle(t)
    /\ Top(t).op = "update_progress"
    /\ Top(t).pc = "body"
    /\ stack'[t] # stack[t]

\* C18: the body of update_progress leaves progress at the floor of
\* 100 * completed_tasks / total_tasks when total_tasks > 0 and as it was
\* otherwise, and no other step changes progress.
C18_ProgressOnlyRecomputed ==
    [][/\ \A t \in Threads :
             Recomputes(t) =>
                progress' = IF total_tasks' > 0
                            THEN (100 * completed_tasks') \div total_tasks'
                            ELSE progress
       /\ progress' # progress => \E t \in Threads : Recomputes(t)]_vars

\* C18's case: update_progress() has recomputed progress after initialize_node
\* raised total_tasks to 2.
C18_Witness ==
    \E t \in Threads :
        /\ AtRelease(t, "update_progress")
        /\ total_tasks = 2
        /\ progress = (100 * completed_tasks) \div total_tasks

\* C19: no thread waits for the lock inside a with block of its own.
C19_NoSelfAcquire == \A t \in Threads : ~SelfBlocked(t)

\* s is a prefix of r.
IsPrefix(s, r) == Len(s) <= Len(r) /\ SubSeq(r, 1, Len(s)) = s

\* C20: no step removes a node; across every step the dependency list of a
\* node is a prefix of its new one; and the body of add_dependency(n, d) on a
\* node that exists appends d to the list of n and changes nothing else.
C20_AppendOnly ==
    [][/\ DOMAIN nodes \subseteq DOMAIN nodes'
       /\ \A n \in DOMAIN nodes :
             IsPrefix(nodes[n].dependencies, nodes'[n].dependencies)
       /\ \A t \in Threads :
             (AtBody(t, "add_dependency") /\ stack[t][1].node_name \in DOMAIN nodes
                 /\ stack'[t] # stack[t])
             => LET n == stack[t][1].node_name
                    d == stack[t][1].arg
                IN  /\ AtRelease(t, "add_dependency")'
                    /\ nodes' = [nodes EXCEPT ![n].dependencies = @ \o <<d>>]
                    /\ <<progress, total_tasks, completed_tasks>>'
                         = <<progress, total_tasks, completed_tasks>>]_vars

\* C20's case: add_dependency(n, d) has run on a node that had the dependency
\* d, which it now has twice, after another entry.
C20_Witness ==
    \E t \in Threads :
        /\ AtRelease(t, "add_dependency")
        /\ LET n == stack[t][1].node_name
               d == stack[t][1].arg
           IN  /\ n \in DOMAIN nodes
               /\ Len(nodes[n].dependencies) = 2
               /\ nodes[n].dependencies[1] = d
               /\ nodes[n].dependencies[2] = d

====
